---- MODULE Spec2Model ----
(***************************************************************************)
(* Model of the Fake News Detection Extension popup (popup.js):            *)
(* the Porter stemmer (NLTK extensions mode), the text preprocessing       *)
(* (stemming), the TF-IDF vectorizer (SimpleTFIDF), the logistic           *)
(* regression predictor and the popup's analyzeArticle handler.            *)
(*                                                                         *)
(* Four specifications share the variables: Spec (the stemmer), SpecVec    *)
(* (stemming, transform, predict on one text), SpecCalls (repeated calls   *)
(* on one bundle) and SpecPopup (analyzeArticle between its awaits).       *)
(*                                                                         *)
(* JavaScript strings are TLA+ strings; positions are 0-based as in the    *)
(* source, and CharAt/DropLast convert to the 1-based SubSeq.              *)
(***************************************************************************)
EXTENDS Integers, Sequences, FiniteSets, TLC

VARIABLES
    word,           \* stemmer harness: the argument of stem()
    out,            \* stemmer harness: stem(word)
    out2,           \* stemmer harness: stem(stem(word))
    phase,          \* stemmer harness: "ready", "stemmed", "restemmed", "threw"
    dbl,            \* stemmer harness: <<endsDoubleConsonant(word)>>, <<>>
                    \*        before the call
    text,           \* pipeline: the text given to stemming() / transform()
    bundle,         \* pipeline: the model bundle (model_params.json)
    words,          \* pipeline: stemming()'s array words before the join
    processedText,  \* pipeline: the string stemming() returns
    tokens,         \* pipeline: transform()'s tokens
    features,       \* pipeline: what transform() returns
    predicted,      \* pipeline: what predict() returns
    vphase,         \* pipeline: "ready", "normalized", "vectorized",
                    \*        "predicted"
    memo,           \* repeated calls: every call made so far with its result
    calls,          \* repeated calls: how many calls were made
    heap,           \* repeated calls: the arrays and maps that exist, the
                    \*        bundle's and those the calls created
    pc,             \* popup: pc[r] is where call r of analyzeArticle is:
                    \*        "query", "message", "load", "ended"
    modelFile,      \* popup: what fetching model/model_params.json gives
    domLoaded,      \* popup: DOMContentLoaded has fired
    btnDisabled,    \* popup: analyzeBtn.disabled
    btnText,        \* popup: analyzeBtn.textContent
    resultArea,     \* popup: what the element result shows
    response,       \* popup: response[r] is the content script's answer
                    \*        to call r
    modelComponents,\* popup: what loadModel() resolved with
    transformCalls, \* popup: calls of vectorizer.transform in this run
    predictCalls,   \* popup: calls of model.predict in this run
    prediction,     \* popup: what model.predict returned in this run
    runs            \* popup: analysis runs started

stemVars == <<word, out, out2, phase, dbl>>
pipeVars == <<text, bundle, words, processedText, tokens, features, predicted,
              vphase>>
callVars == <<memo, calls, heap>>
popupVars == <<pc, modelFile, domLoaded, btnDisabled, btnText, resultArea, response,
               modelComponents, transformCalls, predictCalls, prediction, runs>>
vars == <<stemVars, pipeVars, callVars, popupVars>>

(***************************************************************************)
(* String helpers (JavaScript String methods used by the source)           *)
(***************************************************************************)

\* word[i] with a 0-based index; "" stands for undefined (out of range)
CharAt(w, i) == IF i >= 0 /\ i < Len(w) THEN SubSeq(w, i + 1, i + 1) ELSE ""

\* word.slice(0, -n) for n > 0
DropLast(w, n) == IF Len(w) > n THEN SubSeq(w, 1, Len(w) - n) ELSE ""

\* word.endsWith(suffix)
EndsWith(w, suffix) ==
    /\ Len(w) >= Len(suffix)
    /\ SubSeq(w, Len(w) - Len(suffix) + 1, Len(w)) = suffix

LowerLetters == "abcdefghijklmnopqrstuvwxyz"
UpperLetters == "ABCDEFGHIJKLMNOPQRSTUVWXYZ"

IsLowerLetter(c) == \E i \in 1..26 : SubSeq(LowerLetters, i, i) = c
IsUpperLetter(c) == \E i \in 1..26 : SubSeq(UpperLetters, i, i) = c

\* one character of String.prototype.toLowerCase
LowerChar(c) ==
    IF IsUpperLetter(c)
    THEN LET i == CHOOSE j \in 1..26 : SubSeq(UpperLetters, j, j) = c
         IN  SubSeq(LowerLetters, i, i)
    ELSE c

RECURSIVE ToLowerCase(_)
ToLowerCase(s) ==
    IF Len(s) = 0 THEN ""
    ELSE ToLowerCase(DropLast(s, 1)) \o LowerChar(CharAt(s, Len(s) - 1))

(***************************************************************************)
(* PorterStemmer                                                           *)
(***************************************************************************)

\* irregularForms: canonical stem -> listed forms
irregularForms ==
    { <<"sky", "sky">>, <<"sky", "skies">>,
      <<"die", "dying">>, <<"lie", "lying">>, <<"tie", "tying">>,
      <<"news", "news">>,
      <<"inning", "innings">>, <<"inning", "inning">>,
      <<"outing", "outings">>, <<"outing", "outing">>,
      <<"canning", "cannings">>, <<"canning", "canning">>,
      <<"howe", "howe">>, <<"proceed", "proceed">>,
      <<"exceed", "exceed">>, <<"succeed", "succeed">> }

\* the forms that are own keys of this.pool after the inversion loop
PoolKeys == { p[2] : p \in irregularForms }

\* String(Object): what this.pool["constructor"], the constructor that the
\* object literal {} inherits from Object.prototype, becomes once joined
ObjectConstructorText == "function Object() { [native code] }"

\* mutant of pool: the table is not inverted, so it is keyed by stem
poolNotInverted(w) ==
    IF w \in { p[1] : p \in irregularForms } THEN w ELSE ""

\* this.pool[w]: an own key gives its stem; "constructor" is the one
\* lowercase alphabetic name {} inherits; anything else is undefined ("")
pool(w) ==
    IF w \in PoolKeys
    THEN (CHOOSE p \in irregularForms : p[2] = w)[1]
    ELSE IF w = "constructor" THEN ObjectConstructorText
    ELSE ""

vowels == {"a", "e", "i", "o", "u"}

RECURSIVE isConsonant(_, _)
isConsonant(w, i) ==
    IF CharAt(w, i) \in vowels THEN FALSE
    ELSE IF CharAt(w, i) = "y"
         THEN IF i = 0 THEN TRUE ELSE ~isConsonant(w, i - 1)
         ELSE TRUE

\* the number of "vc" occurrences in the c/v encoding of the stem
measure(stem) ==
    Cardinality({ i \in 0..(Len(stem) - 2) :
                    ~isConsonant(stem, i) /\ isConsonant(stem, i + 1) })

hasPositiveMeasure(stem) == measure(stem) > 0

containsVowel(stem) == \E i \in 0..(Len(stem) - 1) : ~isConsonant(stem, i)

endsDoubleConsonant(w) ==
    /\ Len(w) >= 2
    /\ CharAt(w, Len(w) - 1) = CharAt(w, Len(w) - 2)
    /\ isConsonant(w, Len(w) - 1)

endsCVC(w) ==
    LET len == Len(w)
        standardCVC ==
            /\ len >= 3
            /\ isConsonant(w, len - 3)
            /\ ~isConsonant(w, len - 2)
            /\ isConsonant(w, len - 1)
            /\ CharAt(w, len - 1) \notin {"w", "x", "y"}
        nltkCVC ==
            /\ len = 2
            /\ ~isConsonant(w, 0)
            /\ isConsonant(w, 1)
    IN  standardCVC \/ nltkCVC

replaceSuffix(w, suffix, replacement) ==
    IF ~EndsWith(w, suffix) THEN w
    ELSE IF suffix = "" THEN w \o replacement
    ELSE DropLast(w, Len(suffix)) \o replacement

\* The condition closures of the rule lists, by name; w is the word the
\* list is applied to (the variable the closures of step1b, step2 and
\* step5b capture), stem the word without the matched suffix.
condition(c, stem, w) ==
    CASE c = "null"        -> TRUE
      [] c = "measurePos"  -> hasPositiveMeasure(stem)
      [] c = "measureGt1"  -> measure(stem) > 1
      [] c = "notLSZ"      -> CharAt(w, Len(w) - 1) \notin {"l", "s", "z"}
      [] c = "m1CVC"       -> measure(stem) = 1 /\ endsCVC(stem)
      [] c = "nltk1c"      -> Len(stem) > 1 /\ isConsonant(stem, Len(stem) - 1)
      [] c = "logi"        -> hasPositiveMeasure(DropLast(w, 3))
      [] c = "ion"         -> /\ measure(stem) > 1
                              /\ CharAt(stem, Len(stem) - 1) \in {"s", "t"}
      [] c = "ll"          -> measure(DropLast(w, 1)) > 1

\* applyRuleList from rule k on; a rule is <<suffix, replacement, condition>>
RECURSIVE applyRuleFrom(_, _, _)
applyRuleFrom(w, rules, k) ==
    IF k > Len(rules) THEN w
    ELSE LET suffix      == rules[k][1]
             replacement == rules[k][2]
             cond        == rules[k][3]
         IN  IF suffix = "*d" /\ endsDoubleConsonant(w)
             THEN IF condition(cond, DropLast(w, 2), w)
                  THEN DropLast(w, 2) \o replacement
                  ELSE w
             ELSE IF EndsWith(w, suffix)
             THEN IF condition(cond, replaceSuffix(w, suffix, ""), w)
                  THEN replaceSuffix(w, suffix, "") \o replacement
                  ELSE w
             ELSE applyRuleFrom(w, rules, k + 1)

\* mutant of applyRuleList: a rule whose condition fails is skipped and the
\* next rule of the list is tried
RECURSIVE applyRuleFallThrough(_, _, _)
applyRuleFallThrough(w, rules, k) ==
    IF k > Len(rules) THEN w
    ELSE LET suffix      == rules[k][1]
             replacement == rules[k][2]
             cond        == rules[k][3]
         IN  IF /\ suffix = "*d"
                /\ endsDoubleConsonant(w)
                /\ condition(cond, DropLast(w, 2), w)
             THEN DropLast(w, 2) \o replacement
             ELSE IF /\ suffix # "*d"
                     /\ EndsWith(w, suffix)
                     /\ condition(cond, replaceSuffix(w, suffix, ""), w)
             THEN replaceSuffix(w, suffix, "") \o replacement
             ELSE applyRuleFallThrough(w, rules, k + 1)

applyRuleListFallThrough(w, rules) == applyRuleFallThrough(w, rules, 1)

applyRuleList(w, rules) == applyRuleFrom(w, rules, 1)

\* mutant of step1a: the no-op rule "ss" -> "ss" is left out
step1aNoSsRule(w) ==
    IF EndsWith(w, "ies") /\ Len(w) = 4
    THEN replaceSuffix(w, "ies", "ie")
    ELSE applyRuleList(w, << <<"sses", "ss", "null">>,
                             <<"ies", "i", "null">>,
                             <<"s", "", "null">> >>)

step1aRules ==
    << <<"sses", "ss", "null">>,
       <<"ies", "i", "null">>,
       <<"ss", "ss", "null">>,
       <<"s", "", "null">> >>

step1a(w) ==
    IF EndsWith(w, "ies") /\ Len(w) = 4
    THEN replaceSuffix(w, "ies", "ie")
    ELSE applyRuleList(w, step1aRules)

\* the stem left by the first of "ed", "ing" whose removal leaves a vowel;
\* "" when neither succeeds (a stem with a vowel is never empty)
step1bIntermediate(w) ==
    IF EndsWith(w, "ed") /\ containsVowel(replaceSuffix(w, "ed", ""))
    THEN replaceSuffix(w, "ed", "")
    ELSE IF EndsWith(w, "ing") /\ containsVowel(replaceSuffix(w, "ing", ""))
    THEN replaceSuffix(w, "ing", "")
    ELSE ""

\* mutant of step1b: only "ed" is tried, "ing" is left on the word
step1bEdOnly(w) ==
    IF EndsWith(w, "ied")
    THEN IF Len(w) = 4 THEN replaceSuffix(w, "ied", "ie")
                       ELSE replaceSuffix(w, "ied", "i")
    ELSE IF EndsWith(w, "eed")
    THEN IF measure(replaceSuffix(w, "eed", "")) > 0
         THEN replaceSuffix(w, "eed", "") \o "ee"
         ELSE w
    ELSE LET intermediateStem ==
                IF EndsWith(w, "ed") /\ containsVowel(replaceSuffix(w, "ed", ""))
                THEN replaceSuffix(w, "ed", "")
                ELSE ""
         IN  IF intermediateStem = "" THEN w
             ELSE applyRuleList(intermediateStem,
                    << <<"at", "ate", "null">>,
                       <<"bl", "ble", "null">>,
                       <<"iz", "ize", "null">>,
                       <<"*d", CharAt(intermediateStem,
                                      Len(intermediateStem) - 1), "notLSZ">>,
                       <<"", "e", "m1CVC">> >>)

step1b(w) ==
    IF EndsWith(w, "ied")
    THEN IF Len(w) = 4 THEN replaceSuffix(w, "ied", "ie")
                       ELSE replaceSuffix(w, "ied", "i")
    ELSE IF EndsWith(w, "eed")
    THEN IF measure(replaceSuffix(w, "eed", "")) > 0
         THEN replaceSuffix(w, "eed", "") \o "ee"
         ELSE w
    ELSE LET intermediateStem == step1bIntermediate(w)
         IN  IF intermediateStem = "" THEN w
             ELSE applyRuleList(intermediateStem,
                    << <<"at", "ate", "null">>,
                       <<"bl", "ble", "null">>,
                       <<"iz", "ize", "null">>,
                       <<"*d", CharAt(intermediateStem,
                                      Len(intermediateStem) - 1), "notLSZ">>,
                       <<"", "e", "m1CVC">> >>)

step1cRules == << <<"y", "i", "nltk1c">> >>

step1c(w) == applyRuleList(w, step1cRules)

step2Rules ==
    << <<"ational", "ate", "measurePos">>,
       <<"tional", "tion", "measurePos">>,
       <<"enci", "ence", "measurePos">>,
       <<"anci", "ance", "measurePos">>,
       <<"izer", "ize", "measurePos">>,
       <<"bli", "ble", "measurePos">>,
       <<"alli", "al", "measurePos">>,
       <<"entli", "ent", "measurePos">>,
       <<"eli", "e", "measurePos">>,
       <<"ousli", "ous", "measurePos">>,
       <<"ization", "ize", "measurePos">>,
       <<"ation", "ate", "measurePos">>,
       <<"ator", "ate", "measurePos">>,
       <<"alism", "al", "measurePos">>,
       <<"iveness", "ive", "measurePos">>,
       <<"fulness", "ful", "measurePos">>,
       <<"ousness", "ous", "measurePos">>,
       <<"aliti", "al", "measurePos">>,
       <<"iviti", "ive", "measurePos">>,
       <<"biliti", "ble", "measurePos">>,
       <<"fulli", "ful", "measurePos">>,
       <<"logi", "log", "logi">> >>

RECURSIVE step2(_)
step2(w) ==
    IF EndsWith(w, "alli") /\ hasPositiveMeasure(replaceSuffix(w, "alli", ""))
    THEN step2(replaceSuffix(w, "alli", "al"))
    ELSE applyRuleList(w, step2Rules)

step3Rules ==
    << <<"icate", "ic", "measurePos">>,
       <<"ative", "", "measurePos">>,
       <<"alize", "al", "measurePos">>,
       <<"iciti", "ic", "measurePos">>,
       <<"ical", "ic", "measurePos">>,
       <<"ful", "", "measurePos">>,
       <<"ness", "", "measurePos">> >>

step3(w) == applyRuleList(w, step3Rules)

step4Rules ==
    << <<"al", "", "measureGt1">>,
       <<"ance", "", "measureGt1">>,
       <<"ence", "", "measureGt1">>,
       <<"er", "", "measureGt1">>,
       <<"ic", "", "measureGt1">>,
       <<"able", "", "measureGt1">>,
       <<"ible", "", "measureGt1">>,
       <<"ant", "", "measureGt1">>,
       <<"ement", "", "measureGt1">>,
       <<"ment", "", "measureGt1">>,
       <<"ent", "", "measureGt1">>,
       <<"ion", "", "ion">>,
       <<"ou", "", "measureGt1">>,
       <<"ism", "", "measureGt1">>,
       <<"ate", "", "measureGt1">>,
       <<"iti", "", "measureGt1">>,
       <<"ous", "", "measureGt1">>,
       <<"ive", "", "measureGt1">>,
       <<"ize", "", "measureGt1">> >>

step4(w) == applyRuleList(w, step4Rules)

\* mutant of step5a: the first test is m > 2
step5aGt2(w) ==
    IF EndsWith(w, "e")
    THEN LET stem == replaceSuffix(w, "e", "")
             m    == measure(stem)
         IN  IF m > 2 THEN stem
             ELSE IF m = 1 /\ ~endsCVC(stem) THEN stem
             ELSE w
    ELSE w

step5a(w) ==
    IF EndsWith(w, "e")
    THEN LET stem == replaceSuffix(w, "e", "")
             m    == measure(stem)
         IN  IF m > 1 THEN stem
             ELSE IF m = 1 /\ ~endsCVC(stem) THEN stem
             ELSE w
    ELSE w

step5bRules == << <<"ll", "l", "ll">> >>

step5b(w) == applyRuleList(w, step5bRules)

\* steps 1a .. 5b in order
steps(w) == step5b(step5a(step4(step3(step2(step1c(step1b(step1a(w))))))))

\* mutant of stem: the length guard is w.length < 2
stemGuardLt2(wd) ==
    LET w == ToLowerCase(wd)
    IN  IF pool(w) # "" THEN pool(w)
        ELSE IF Len(w) < 2 THEN w
        ELSE steps(w)

stem(wd) ==
    LET w == ToLowerCase(wd)
    IN  IF pool(w) # "" THEN pool(w)
        ELSE IF Len(w) <= 2 THEN w
        ELSE steps(w)

(***************************************************************************)
(* Text preprocessing: STOPWORDS and stemming()                            *)
(***************************************************************************)

STOPWORDS ==
    { "i", "me", "my", "myself", "we", "our", "ours", "ourselves", "you",
      "you're", "you've", "you'll", "you'd", "your", "yours", "yourself",
      "yourselves", "he", "him", "his", "himself", "she", "she's", "her",
      "hers", "herself", "it", "it's", "its", "itself", "they", "them",
      "their", "theirs", "themselves", "what", "which", "who", "whom",
      "this", "that", "that'll", "these", "those", "am", "is", "are", "was",
      "were", "be", "been", "being", "have", "has", "had", "having", "do",
      "does", "did", "doing", "a", "an", "the", "and", "but", "if", "or",
      "because", "as", "until", "while", "of", "at", "by", "for", "with",
      "about", "against", "between", "into", "through", "during", "before",
      "after", "above", "below", "to", "from", "up", "down", "in", "out",
      "on", "off", "over", "under", "again", "further", "then", "once",
      "here", "there", "when", "where", "why", "how", "all", "both", "each",
      "few", "more", "most", "other", "some", "such", "no", "nor", "not",
      "only", "own", "same", "so", "than", "too", "very", "s", "t", "can",
      "will", "just", "don", "don't", "should", "should've", "now", "d",
      "ll", "m", "o", "re", "ve", "y", "ain", "aren", "aren't", "couldn",
      "couldn't", "didn", "didn't", "doesn", "doesn't", "hadn", "hadn't",
      "hasn", "hasn't", "haven", "haven't", "isn", "isn't", "ma", "mightn",
      "mightn't", "mustn", "mustn't", "needn", "needn't", "shan", "shan't",
      "shouldn", "shouldn't", "wasn", "wasn't", "weren", "weren't", "won",
      "won't", "wouldn", "wouldn't" }

\* content.replace(/[^a-zA-Z]/g, ' ')
RECURSIVE ReplaceNonAlpha(_)
ReplaceNonAlpha(s) ==
    IF Len(s) = 0 THEN ""
    ELSE LET c == CharAt(s, Len(s) - 1)
         IN  ReplaceNonAlpha(DropLast(s, 1))
                 \o (IF IsLowerLetter(c) \/ IsUpperLetter(c) THEN c ELSE " ")

\* the characters \s matches among those a text of the model holds
IsSpace(c) == c \in {" ", "\t", "\n"}

\* s.split(/\s+/).filter(w => w.length > 0), scanning from position i with
\* the current run cur and the pieces found so far acc
RECURSIVE SplitFrom(_, _, _, _)
SplitFrom(s, i, cur, acc) ==
    IF i >= Len(s)
    THEN IF cur = "" THEN acc ELSE Append(acc, cur)
    ELSE IF IsSpace(CharAt(s, i))
         THEN SplitFrom(s, i + 1, "", IF cur = "" THEN acc ELSE Append(acc, cur))
         ELSE SplitFrom(s, i + 1, cur \o CharAt(s, i), acc)

SplitWords(s) == SplitFrom(s, 0, "", <<>>)

\* words.join(' ')
RECURSIVE Join(_)
Join(ws) ==
    IF Len(ws) = 0 THEN ""
    ELSE IF Len(ws) = 1 THEN ws[1]
    ELSE Join(SubSeq(ws, 1, Len(ws) - 1)) \o " " \o ws[Len(ws)]

\* the array words of stemming() after the split and its length filter
splitWords(content) == SplitWords(ToLowerCase(ReplaceNonAlpha(content)))

\* mutant of survivingWords: the stopword filter is left out
survivingWordsUnfiltered(content) == splitWords(content)

\* the array words of stemming() after the stopword filter
survivingWords(content) ==
    SelectSeq(splitWords(content), LAMBDA w : w \notin STOPWORDS)

\* the array words of stemming() after the map, before the join
stemmedWords(content) ==
    LET kept == survivingWords(content)
    IN  [i \in 1..Len(kept) |-> stem(kept[i])]

stemming(content) == Join(stemmedWords(content))

(***************************************************************************)
(* Numbers.  A JavaScript number is an IEEE-754 double.  A finite double   *)
(* is <<s, m, e>>: sign s (1 or -1), magnitude m * 2^e, where m is a       *)
(* natural number of exactly MantissaBits bits written as its digits in    *)
(* base 2^DigitBits, least significant digit first (of fewer bits, with    *)
(* e = MinExponent, below the normal range).  Zero is <<1, <<>>, 0>> and   *)
(* NaN is <<>>.  Every operation rounds to nearest, ties to even, as the   *)
(* arithmetic of the source does.  The values the pipeline reaches stay    *)
(* below the largest double, so no operation rounds to an infinity         *)
(* (Math.exp alone answers one, see sigmoid); a quotient and a root are    *)
(* taken of numbers of the normal range; and the sign of a zero is not     *)
(* kept: no operation of the source tells -0 from 0.                       *)
(***************************************************************************)

DigitBits == 15
Base == 2^DigitBits
MantissaBits == 53

\* The operations on digit strings are written in closed form wherever one
\* exists (carries and borrows are looked ahead), and a value that is used
\* more than once is handed on as a parameter.

\* a natural number below Base^3 as digits, least significant first, no
\* leading zero
BigFromNat(n) ==
    IF n = 0 THEN <<>>
    ELSE IF n < Base THEN <<n>>
    ELSE IF n \div Base < Base THEN <<n % Base, n \div Base>>
    ELSE <<n % Base, (n \div Base) % Base, (n \div Base) \div Base>>

BigDigit(a, i) == IF i >= 1 /\ i <= Len(a) THEN a[i] ELSE 0

\* a without leading zeros: as many digits as there are positions with a
\* digit other than 0 at or above them
BigNorm(a) ==
    SubSeq(a, 1, Cardinality({ i \in 1..Len(a) : \E j \in i..Len(a) : a[j] # 0 }))

\* a < b
BigLess(a, b) ==
    \E i \in 1..Len(b) :
        /\ BigDigit(a, i) < b[i]
        /\ \A j \in (i + 1)..(Len(a) + Len(b)) : BigDigit(a, j) = BigDigit(b, j)

\* a + b: position i receives a carry when a lower position j overflows
\* and every position between them is full
BigAdd(a, b) ==
    LET n    == (IF Len(a) > Len(b) THEN Len(a) ELSE Len(b)) + 1
        s(i) == BigDigit(a, i) + BigDigit(b, i)
    IN  BigNorm(SubSeq([i \in 1..n |->
                          (s(i) + IF \E j \in 1..(i - 1) :
                                       /\ s(j) >= Base
                                       /\ \A m \in (j + 1)..(i - 1) : s(m) = Base - 1
                                  THEN 1 ELSE 0) % Base],
                       1, n))

\* a - b for a >= b: position i lends when a lower position j falls below
\* zero and every position between them is zero
BigSub(a, b) ==
    LET t(i) == BigDigit(a, i) - BigDigit(b, i)
    IN  BigNorm(SubSeq([i \in 1..Len(a) |->
                          (t(i) - IF \E j \in 1..(i - 1) :
                                       /\ t(j) < 0
                                       /\ \A m \in (j + 1)..(i - 1) : t(m) = 0
                                  THEN 1 ELSE 0) % Base],
                       1, Len(a)))

\* a * d for one digit d: the low halves of the digit products plus their
\* high halves one position up
BigMulSmall(a, d) ==
    BigAdd(SubSeq([i \in 1..Len(a) |-> (a[i] * d) % Base], 1, Len(a)),
           <<0>> \o SubSeq([i \in 1..Len(a) |-> (a[i] * d) \div Base], 1, Len(a)))

\* a * the digits j and up of b
RECURSIVE BigMulFrom(_, _, _)
BigMulFrom(a, b, j) ==
    IF j > Len(b) THEN <<>>
    ELSE BigAdd(BigMulSmall(a, b[j]), <<0>> \o BigMulFrom(a, b, j + 1))

BigMul(a, b) == BigMulFrom(a, b, 1)

\* a * 2^k
BigShl(a, k) ==
    LET q == k \div DigitBits
        r == k % DigitBits
    IN  BigNorm(SubSeq([i \in 1..(Len(a) + q + 1) |->
                          (BigDigit(a, i - q) % (2^(DigitBits - r))) * (2^r)
                          + (BigDigit(a, i - q - 1) \div (2^(DigitBits - r)))],
                       1, Len(a) + q + 1))

\* a \div 2^k
BigShr(a, k) ==
    LET q == k \div DigitBits
        r == k % DigitBits
    IN  BigNorm(SubSeq([i \in 1..Len(a) |->
                          (BigDigit(a, i + q) \div (2^r))
                          + (BigDigit(a, i + q + 1) % (2^r)) * (2^(DigitBits - r))],
                       1, Len(a)))

\* the number of bits of a
BigBitLen(a) ==
    IF a = <<>> THEN 0
    ELSE DigitBits * (Len(a) - 1)
         + (CHOOSE k \in 1..DigitBits : 2^(k - 1) <= a[Len(a)] /\ a[Len(a)] < 2^k)

\* bit i of a, bit 0 the lowest
BigBit(a, i) == (BigDigit(a, i \div DigitBits + 1) \div (2^(i % DigitBits))) % 2

\* the estimate of r \div d from the two leading digits of r and the leading
\* digit of d, for r < d * Base and a leading digit of d of at least
\* Base / 2: at most 2 above the quotient
BigEstimate(r, d) ==
    LET qhat == (BigDigit(r, Len(d) + 1) * Base + BigDigit(r, Len(d))) \div d[Len(d)]
    IN  IF qhat >= Base THEN Base - 1 ELSE qhat

\* long division of digits i down to 1 of n by d: r is the remainder of
\* the digits above i and q their quotient; <<quotient, remainder>>
RECURSIVE BigDivFrom(_, _, _, _, _)

\* the estimate was above the digit and its product is short by deficit
BigDivShort(n, d, i, q, qhat, deficit) ==
    IF BigLess(d, deficit)
    THEN BigDivFrom(n, d, i - 1, BigSub(d, BigSub(deficit, d)), <<qhat - 2>> \o q)
    ELSE BigDivFrom(n, d, i - 1, BigSub(d, deficit), <<qhat - 1>> \o q)

\* p is d times the estimate qhat of cur \div d
BigDivFit(n, d, i, cur, q, qhat, p) ==
    IF BigLess(cur, p)
    THEN BigDivShort(n, d, i, q, qhat, BigSub(p, cur))
    ELSE BigDivFrom(n, d, i - 1, BigSub(cur, p), <<qhat>> \o q)

BigDivStep(n, d, i, cur, q) ==
    BigDivFit(n, d, i, cur, q, BigEstimate(cur, d),
              BigMulSmall(d, BigEstimate(cur, d)))

BigDivFrom(n, d, i, r, q) ==
    IF i = 0 THEN <<q, r>>
    ELSE BigDivStep(n, d, i, BigNorm(<<n[i]>> \o r), q)

\* the division of n by d, both already shifted by s bits to give d a
\* leading digit of at least Base / 2: the digits of n that cannot hold d
\* start the remainder
BigDivResult(qr, s) == <<BigNorm(qr[1]), BigShr(qr[2], s)>>

BigDivAligned(n, d, s) ==
    BigDivResult(BigDivFrom(n, d, Len(n) - Len(d) + 1,
                            SubSeq(n, Len(n) - Len(d) + 2, Len(n)), <<>>),
                 s)

\* <<n \div d, n % d>> for n >= d > 0
BigDivMod(n, d) ==
    LET s == DigitBits * Len(d) - BigBitLen(d)
    IN  BigDivAligned(BigShl(n, s), BigShl(d, s), s)

\* one step of Newton's iteration for the square root of n: below x as
\* long as x is above the root
BigSqrtStep(n, x) == BigShr(BigAdd(x, BigDivMod(n, x)[1]), 1)

\* the integer square root of n > 0 by Newton's iteration downwards from
\* x, which is at least the root; y is the step from x
RECURSIVE BigSqrtFrom(_, _)
BigSqrtNext(n, x, y) == IF BigLess(y, x) THEN BigSqrtFrom(n, y) ELSE x

BigSqrtFrom(n, x) == BigSqrtNext(n, x, BigSqrtStep(n, x))

\* the iteration starts from the step taken at 2^h, h half the bits of n
BigSqrt(n) ==
    LET h == BigBitLen(n) \div 2
    IN  BigSqrtFrom(n, BigShr(BigAdd(BigShl(<<1>>, h), BigShr(n, h)), 1))

NaN == <<>>
IsNaN(x) == x = <<>>
Zero == <<1, <<>>, 0>>
IsZero(x) == x = Zero

\* t, the MantissaBits leading bits of a magnitude after rounding up or
\* down, may have grown by a bit
RoundCarry(s, t, e) ==
    IF t = <<>> THEN Zero
    ELSE IF BigBitLen(t) > MantissaBits THEN <<s, BigShr(t, 1), e + 1>>
    ELSE <<s, t, e>>

\* m has d bits more than a mantissa holds: the first bit dropped and
\* whether anything follows it decide, a tie goes to the even mantissa
RoundTo(s, m, e, sticky, d) ==
    IF d <= 0 THEN <<s, BigShl(m, -d), e + d>>
    ELSE RoundCarry(s,
                    BigAdd(BigShr(m, d),
                           IF /\ BigBit(m, d - 1) = 1
                              /\ \/ sticky
                                 \/ \E i \in 0..(d - 2) : BigBit(m, i) = 1
                                 \/ BigBit(m, d) = 1
                           THEN <<1>> ELSE <<>>),
                    e + d)

\* the exponent of the last place of the least doubles: a double below the
\* normal range is a multiple of 2^MinExponent and its mantissa is short
MinExponent == -1074

\* the double nearest to s * m * 2^e; sticky says that the exact value is
\* a little above m * 2^e.  The bits beyond MantissaBits are dropped, and
\* so are those below 2^MinExponent.
Round(s, m, e, sticky) ==
    IF m = <<>> THEN Zero
    ELSE RoundTo(s, m, e, sticky,
                 IF BigBitLen(m) - MantissaBits > MinExponent - e
                 THEN BigBitLen(m) - MantissaBits ELSE MinExponent - e)

\* the double of an integer n
Num(n) ==
    IF n < 0 THEN Round(-1, BigFromNat(-n), 0, FALSE)
    ELSE Round(1, BigFromNat(n), 0, FALSE)

Neg(x) == IF IsNaN(x) \/ IsZero(x) THEN x ELSE <<-x[1], x[2], x[3]>>

\* x * y
Times(x, y) ==
    IF IsNaN(x) \/ IsNaN(y) THEN NaN
    ELSE IF IsZero(x) \/ IsZero(y) THEN Zero
    ELSE Round(x[1] * y[1], BigMul(x[2], y[2]), x[3] + y[3], FALSE)

\* the sum of sa * a * 2^e and sb * b * 2^e
PlusMantissas(sa, a, sb, b, e) ==
    Round(IF sa = sb \/ BigLess(b, a) THEN sa ELSE sb,
          IF sa = sb THEN BigAdd(a, b)
          ELSE IF BigLess(b, a) THEN BigSub(a, b) ELSE BigSub(b, a),
          e, FALSE)

\* hi + lo for hi of the greater or the same exponent: a number more than
\* MantissaBits + 2 binary places below hi does not change it
PlusAligned(hi, lo) ==
    IF hi[3] - lo[3] > MantissaBits + 2 THEN hi
    ELSE PlusMantissas(hi[1], BigShl(hi[2], hi[3] - lo[3]), lo[1], lo[2], lo[3])

\* x + y
Plus(x, y) ==
    IF IsNaN(x) \/ IsNaN(y) THEN NaN
    ELSE IF IsZero(x) THEN y
    ELSE IF IsZero(y) THEN x
    ELSE PlusAligned(IF x[3] >= y[3] THEN x ELSE y,
                     IF x[3] >= y[3] THEN y ELSE x)

Minus(x, y) == Plus(x, Neg(y))

\* the quotient qr[1] and the remainder qr[2] of the mantissas, rounded
DividedByRound(s, qr, e) == Round(s, qr[1], e, qr[2] # <<>>)

\* x / y for y other than zero
DividedBy(x, y) ==
    IF IsNaN(x) \/ IsNaN(y) THEN NaN
    ELSE IF IsZero(x) THEN Zero
    ELSE DividedByRound(x[1] * y[1],
                        BigDivMod(BigShl(x[2], MantissaBits + 3), y[2]),
                        x[3] - (MantissaBits + 3) - y[3])

\* the root r of n, rounded; it is exact when r * r is n
SqrtRound(n, e, r) == Round(1, r, e, BigMul(r, r) # n)

\* Math.sqrt(x) for x > 0: the mantissa is shifted to an even exponent
Sqrt(x) ==
    LET k == IF (x[3] - (MantissaBits + 4)) % 2 = 0
             THEN MantissaBits + 4 ELSE MantissaBits + 5
    IN  SqrtRound(BigShl(x[2], k), (x[3] - k) \div 2, BigSqrt(BigShl(x[2], k)))

\* x > 0, false for NaN
Positive(x) == ~IsNaN(x) /\ ~IsZero(x) /\ x[1] = 1

\* x < y, false when one of them is NaN
LessThan(x, y) == ~IsNaN(x) /\ ~IsNaN(y) /\ Positive(Minus(y, x))

\* A number of a model bundle is written as an integer n and stands for the
\* decimal literal n / 10 of model_params.json: JSON.parse gives the double
\* nearest to n / 10, which is the correctly rounded quotient of n by 10
Tenths(n) == DividedBy(Num(n), Num(10))

\* array[idx] of a JSON array of numbers; undefined acts as NaN in arithmetic
NumAt(array, i) == IF i \in 1..Len(array) THEN Tenths(array[i]) ELSE NaN

(***************************************************************************)
(* SimpleTFIDF                                                             *)
(* Array positions are the source's index + 1.                             *)
(***************************************************************************)

\* this.vocabMap.get(w): the last position holding w (a later set() of the
\* same key overwrites the earlier one); 0 stands for undefined
vocabMap(vocabulary, w) ==
    IF \E i \in 1..Len(vocabulary) : vocabulary[i] = w
    THEN CHOOSE i \in 1..Len(vocabulary) :
            /\ vocabulary[i] = w
            /\ \A j \in 1..Len(vocabulary) : vocabulary[j] = w => j <= i
    ELSE 0

\* mutant of termCount: binary term presence instead of the raw count
termCountBinary(toks, w) == IF \E i \in 1..Len(toks) : toks[i] = w THEN 1 ELSE 0

\* termCounts.get(w): raw count of w among the tokens
termCount(toks, w) == Cardinality({ i \in 1..Len(toks) : toks[i] = w })

\* the keys of termCounts
termKeys(toks) == { toks[i] : i \in 1..Len(toks) }

\* the key of termCounts whose vocabMap entry is position i, "" when none
hitWord(b, toks, i) ==
    IF \E w \in termKeys(toks) : vocabMap(b.vocabulary, w) = i
    THEN CHOOSE w \in termKeys(toks) : vocabMap(b.vocabulary, w) = i
    ELSE ""

\* val = count * this.idfValues[idx] for the key at position i
valAt(b, toks, i) ==
    Times(Num(termCount(toks, hitWord(b, toks, i))), NumAt(b.idf_values, i))

\* the vector features after the termCounts.forEach loop
rawFeatures(b, toks) ==
    [i \in 1..Len(b.vocabulary) |->
        IF hitWord(b, toks, i) # "" THEN valAt(b, toks, i) ELSE Num(0)]

\* the keys of termCounts in the order forEach visits them: a Map keeps
\* its keys in the order of their first set(), the first occurrence of the
\* token
RECURSIVE termOrderFrom(_, _)
termOrderFrom(toks, i) ==
    IF i > Len(toks) THEN <<>>
    ELSE (IF \A j \in 1..(i - 1) : toks[j] # toks[i] THEN <<toks[i]>> ELSE <<>>)
         \o termOrderFrom(toks, i + 1)

termOrder(toks) == termOrderFrom(toks, 1)

\* mutant of sumSquaresOf: sumSquares += val
RECURSIVE sumSquaresLinearUpTo(_, _, _, _)
sumSquaresLinearUpTo(b, toks, keys, k) ==
    IF k = 0 THEN Zero
    ELSE LET prev == sumSquaresLinearUpTo(b, toks, keys, k - 1)
             idx  == vocabMap(b.vocabulary, keys[k])
         IN  IF idx = 0 THEN prev ELSE Plus(prev, valAt(b, toks, idx))

sumSquaresLinear(b, toks) ==
    sumSquaresLinearUpTo(b, toks, termOrder(toks), Len(termOrder(toks)))

\* val * val
squared(val) == Times(val, val)

\* sumSquares after the first k keys of the termCounts.forEach loop:
\* sumSquares += val * val for a key the vocabulary holds
RECURSIVE sumSquaresUpTo(_, _, _, _)
sumSquaresUpTo(b, toks, keys, k) ==
    IF k = 0 THEN Zero
    ELSE LET prev == sumSquaresUpTo(b, toks, keys, k - 1)
             idx  == vocabMap(b.vocabulary, keys[k])
         IN  IF idx = 0 THEN prev
             ELSE Plus(prev, squared(valAt(b, toks, idx)))

\* sumSquares after the termCounts.forEach loop
sumSquaresOf(b, toks) ==
    sumSquaresUpTo(b, toks, termOrder(toks), Len(termOrder(toks)))

\* step 4 for a vector raw and its sumSquares: every entry divided by
\* norm = Math.sqrt(sumSquares)
normalize(raw, ss) ==
    LET norm == Sqrt(ss)
    IN  [i \in 1..Len(raw) |-> DividedBy(raw[i], norm)]

\* mutant of l2Normalized: step 4 divides by the norm without testing it
l2AlwaysDivides(raw, ss) ==
    [ raw        |-> raw,
      sumSquares |-> ss,
      normalized |-> TRUE,
      vector     |-> IF Positive(ss) THEN normalize(raw, ss)
                     ELSE [i \in 1..Len(raw) |-> NaN] ]

\* step 4 and the return of transform, for the vector raw the loop left
\* and its sumSquares: vector is the array the call returns; raw holds
\* features as it is before step 4, sumSquares the local of that name, and
\* normalized tells whether step 4 divided (sumSquares > 0)
l2Normalized(raw, ss) ==
    [ raw        |-> raw,
      sumSquares |-> ss,
      normalized |-> Positive(ss),
      vector     |-> IF Positive(ss) THEN normalize(raw, ss) ELSE raw ]

\* steps 2 to 4 of transform for the tokens of step 1
transformTokens(b, toks) ==
    l2Normalized(rawFeatures(b, toks), sumSquaresOf(b, toks))

\* transform(text)
transform(b, content) == transformTokens(b, SplitWords(stemming(content)))

\* a bundle and a vector that hold nothing
NoBundle ==
    [ vocabulary |-> <<>>, idf_values |-> <<>>,
      coefficients |-> <<>>, intercept |-> 0 ]

NoFeatures ==
    [ raw |-> <<>>, sumSquares |-> Zero, normalized |-> FALSE, vector |-> <<>> ]

(***************************************************************************)
(* LogisticRegression                                                      *)
(***************************************************************************)

\* score after the first k rounds of the loop of predict:
\* score = this.intercept, then score += features[i] * this.coef[i]; a
\* position this.coef does not have multiplies by undefined and gives NaN
RECURSIVE scoreAfter(_, _, _)
scoreAfter(b, vector, k) ==
    IF k = 0 THEN Tenths(b.intercept)
    ELSE Plus(scoreAfter(b, vector, k - 1),
              Times(vector[k], NumAt(b.coefficients, k)))

\* the local variable score when the loop of predict has ended
scoreValue(b, f) == scoreAfter(b, f.vector, Len(f.vector))

\* the sign of a number, "NaN" for NaN
signOf(x) ==
    IF IsNaN(x) THEN "NaN"
    ELSE IF IsZero(x) THEN "zero"
    ELSE IF Positive(x) THEN "pos" ELSE "neg"

One == Num(1)
Half == DividedBy(Num(1), Num(2))

\* |x|
Abs(x) == IF IsNaN(x) THEN NaN ELSE <<1, x[2], x[3]>>

\* (int) x for |x| < Base^2: the fraction is dropped
Truncate(x) ==
    IF IsZero(x) THEN 0
    ELSE x[1] * (BigDigit(BigShr(x[2], -x[3]), 1)
                 + Base * BigDigit(BigShr(x[2], -x[3]), 2))

\* Math.exp is the exp of V8 (ieee754::exp, the e_exp.c of fdlibm): the
\* argument is reduced to x = hi - lo with |x| <= 0.5 ln 2 and
\* exp(x) = 2^k * exp(hi - lo), and exp of the reduced argument comes from
\* a polynomial in x * x.  These are its constants: ln2HI + ln2LO is ln 2,
\* invln2 is 1 / ln 2, P holds P1 to P5, E is exp(1); halfLn2 and
\* threeHalvesLn2 are the least doubles whose high word is above 0x3FD62E42
\* and at least 0x3FF0A2B2, twom28 is 2^-28; exp is Infinity above
\* o_threshold and 0 below u_threshold.
expConstants ==
    [ ln2HI          |-> <<1, <<0, 32192, 14603, 177>>, -53>>,
      ln2LO          |-> <<1, <<15478, 27378, 26556, 209>>, -85>>,
      invln2         |-> <<1, <<766, 19031, 21789, 184>>, -52>>,
      P              |-> << <<1, <<21822, 10922, 21845, 170>>, -55>>,
                            <<-1, <<15763, 11645, 1456, 182>>, -61>>,
                            <<1, <<24108, 24139, 22954, 138>>, -66>>,
                            <<-1, <<27633, 2980, 29959, 221>>, -72>>,
                            <<1, <<9424, 25981, 23973, 177>>, -77>> >>,
      E              |-> <<1, <<22377, 5672, 31786, 173>>, -51>>,
      halfLn2        |-> <<1, <<0, 0, 14604, 177>>, -54>>,
      threeHalvesLn2 |-> <<1, <<0, 0, 2760, 133>>, -52>>,
      twom28         |-> <<1, <<0, 0, 0, 128>>, -80>>,
      o_threshold    |-> <<1, <<14831, 32244, 14603, 177>>, -43>>,
      u_threshold    |-> <<-1, <<12369, 10842, 9283, 186>>, -43>> ]

\* y * 2^k for y next to 1: exact in the normal range, rounded below it
Scale(y, k) == Round(y[1], y[2], y[3] + k, FALSE)

\* t * (Pi + t * (... + t * P5)) for t = x * x
RECURSIVE expPoly(_, _)
expPoly(t, i) ==
    IF i = Len(expConstants.P) THEN Times(t, expConstants.P[i])
    ELSE Times(t, Plus(expConstants.P[i], expPoly(t, i + 1)))

\* k = 0: one - ((x * c) / (c - 2.0) - x) for
\* c = x - t * (P1 + t * (P2 + t * (P3 + t * (P4 + t * P5))))
expPrimary(x, c) ==
    Minus(One, Minus(DividedBy(Times(x, c), Minus(c, Num(2))), x))

\* k other than 0: y = one - ((lo - (x * c) / (2.0 - c)) - hi), and y * 2^k
expReduced(hi, lo, x, c, k) ==
    Scale(Minus(One,
                Minus(Minus(lo, DividedBy(Times(x, c), Minus(Num(2), c))), hi)),
          k)

expAt(hi, lo, x, k) ==
    expReduced(hi, lo, x, Minus(x, expPoly(Times(x, x), 1)), k)

\* x = hi - lo
expFrom(hi, lo, k) == expAt(hi, lo, Minus(hi, lo), k)

\* hi = x - k * ln2HI and lo = k * ln2LO; for k = 1 and k = -1 the two
\* products are ln2HI[xsb] and ln2LO[xsb]
expShifted(x, k) ==
    expFrom(Minus(x, Times(Num(k), expConstants.ln2HI)),
            Times(Num(k), expConstants.ln2LO), k)

\* Math.exp(x) for x up to o_threshold.  From 0.5 ln 2 on x is reduced,
\* with k = 1 or -1 below 1.5 ln 2 and k = (int)(invln2 * x + 0.5) or
\* (int)(invln2 * x - 0.5) from there on, and exp(1) is E; below 2^-28
\* the answer is one + x.
exp(x) ==
    IF IsNaN(x) THEN NaN
    ELSE IF LessThan(x, expConstants.u_threshold) THEN Zero
    ELSE IF ~LessThan(Abs(x), expConstants.halfLn2)
    THEN IF LessThan(Abs(x), expConstants.threeHalvesLn2)
         THEN IF x = One THEN expConstants.E ELSE expShifted(x, x[1])
         ELSE expShifted(x, Truncate(Plus(Times(expConstants.invln2, x),
                                          IF x[1] = 1 THEN Half ELSE Neg(Half))))
    ELSE IF LessThan(Abs(x), expConstants.twom28) THEN Plus(One, x)
    ELSE expPrimary(x, Minus(x, expPoly(Times(x, x), 1)))

\* probability = 1 / (1 + Math.exp(-score)); Math.exp is Infinity above
\* o_threshold, and 1 / Infinity is 0
sigmoid(score) ==
    IF IsNaN(score) THEN NaN
    ELSE IF LessThan(expConstants.o_threshold, Neg(score)) THEN Zero
    ELSE DividedBy(One, Plus(One, exp(Neg(score))))

\* mutant of predictResult: the label follows the sign of score
predictBySign(score, probability) ==
    [ prediction      |-> IF Positive(score) THEN 1 ELSE 0,
      confidence      |-> IF Positive(score) THEN probability
                          ELSE Minus(One, probability),
      fakeProbability |-> probability,
      realProbability |-> Minus(One, probability),
      score           |-> signOf(score),
      scoreValue      |-> score ]

\* the object predict returns for the local variables score and
\* probability: the four fields of the source; scoreValue records score and
\* score its sign.  No comparison with NaN is true.
predictResult(score, probability) ==
    [ prediction      |-> IF LessThan(Half, probability) THEN 1 ELSE 0,
      confidence      |-> IF LessThan(Half, probability) THEN probability
                          ELSE Minus(One, probability),
      fakeProbability |-> probability,
      realProbability |-> Minus(One, probability),
      score           |-> signOf(score),
      scoreValue      |-> score ]

predictScore(score) == predictResult(score, sigmoid(score))

\* predict(features)
predict(b, f) == predictScore(scoreValue(b, f))

(***************************************************************************)
(* The objects of one vectorizer and one model                             *)
(* A reference is a position in heap; an object is its kind and its cells. *)
(* An assignment to an element writes the cell of the object the           *)
(* reference on its left leads to, whichever object that is.               *)
(***************************************************************************)

\* new SimpleTFIDF(vocabulary, idfValues) and new LogisticRegression(
\* coefficients, intercept): this.vocabulary, this.idfValues and this.coef
\* are the arrays handed in, this.intercept is the number
constructed(b) ==
    << [ kind |-> "vocabulary", cells |-> b.vocabulary ],
       [ kind |-> "idfValues", cells |-> b.idf_values ],
       [ kind |-> "coef", cells |-> b.coefficients ],
       [ kind |-> "intercept", cells |-> <<b.intercept>> ] >>

\* what this.vocabulary, this.idfValues, this.coef and this.intercept hold
bundleOf(h) ==
    [ vocabulary   |-> h[1].cells,
      idf_values   |-> h[2].cells,
      coefficients |-> h[3].cells,
      intercept    |-> h[4].cells[1] ]

\* termCounts.set(token, (termCounts.get(token) || 0) + 1) for the entries
\* m of termCounts, pairs of key and count in the order of their first set()
termCountsSet(m, token) ==
    IF \E j \in 1..Len(m) : m[j][1] = token
    THEN SubSeq([j \in 1..Len(m) |->
                    IF m[j][1] = token THEN <<token, m[j][2] + 1>> ELSE m[j]],
                1, Len(m))
    ELSE Append(m, <<token, 1>>)

\* the heap after the first k rounds of tokens.forEach, for the references
\* the locals tokens and termCounts hold
RECURSIVE afterCounting(_, _, _, _)
afterCounting(h, tokensRef, termCountsRef, k) ==
    IF k = 0 THEN h
    ELSE [afterCounting(h, tokensRef, termCountsRef, k - 1)
            EXCEPT ![termCountsRef].cells =
                       termCountsSet(@, h[tokensRef].cells[k])]

\* mutant of newFeatures: the vector of an earlier call is used again
sharedFeatures(h) ==
    IF \E r \in 1..Len(h) : h[r].kind = "features"
    THEN LET r == CHOOSE q \in 1..Len(h) :
                      /\ h[q].kind = "features"
                      /\ \A q2 \in 1..(q - 1) : h[q2].kind # "features"
         IN  << [h EXCEPT ![r].cells = [i \in 1..Len(h[1].cells) |-> Num(0)]], r >>
    ELSE << Append(h, [ kind  |-> "features",
                        cells |-> [i \in 1..Len(h[1].cells) |-> Num(0)] ]),
            Len(h) + 1 >>

\* const features = new Array(this.vocabulary.length).fill(0): the heap
\* with the new array and the reference to it
newFeatures(h) ==
    << Append(h, [ kind  |-> "features",
                   cells |-> [i \in 1..Len(h[1].cells) |-> Num(0)] ]),
       Len(h) + 1 >>

\* the heap after the first k rounds of termCounts.forEach:
\* idx = this.vocabMap.get(word), and for an idx other than undefined
\* features[idx] = count * this.idfValues[idx]
RECURSIVE afterFilling(_, _, _, _)
afterFilling(h, termCountsRef, featuresRef, k) ==
    IF k = 0 THEN h
    ELSE LET prev == afterFilling(h, termCountsRef, featuresRef, k - 1)
             idx  == vocabMap(prev[1].cells, prev[termCountsRef].cells[k][1])
         IN  IF idx = 0 THEN prev
             ELSE [prev EXCEPT ![featuresRef].cells[idx] =
                       Times(Num(prev[termCountsRef].cells[k][2]),
                             NumAt(prev[2].cells, idx))]

\* the termCounts.forEach loop for hf, the heap and the reference features
\* holds
filled(hf, termCountsRef) ==
    << afterFilling(hf[1], termCountsRef, hf[2], Len(hf[1][termCountsRef].cells)),
       hf[2] >>

\* the heap after the first i rounds of the loop of step 4:
\* features[i] = features[i] / norm
RECURSIVE afterDividing(_, _, _, _)
afterDividing(h, featuresRef, norm, i) ==
    IF i = 0 THEN h
    ELSE [afterDividing(h, featuresRef, norm, i - 1)
            EXCEPT ![featuresRef].cells[i] = DividedBy(@, norm)]

\* step 4 for the local sumSquares, and the return of features
divided(hf, sumSquares) ==
    IF Positive(sumSquares)
    THEN << afterDividing(hf[1], hf[2], Sqrt(sumSquares), Len(hf[1][hf[2]].cells)),
            hf[2] >>
    ELSE hf

\* transform(text) on the heap h: the heap the call leaves and the
\* reference it returns.  tokens and termCounts are the two objects the
\* call creates first.
transformOnHeap(h, content) ==
    divided(filled(newFeatures(
                       afterCounting(h \o << [ kind  |-> "tokens",
                                               cells |-> SplitWords(stemming(content)) ],
                                             [ kind |-> "termCounts", cells |-> <<>> ] >>,
                                     Len(h) + 1, Len(h) + 2,
                                     Len(SplitWords(stemming(content))))),
                   Len(h) + 2),
            sumSquaresOf(bundleOf(h), SplitWords(stemming(content))))

\* predict(features) on the heap h for the reference features holds: score
\* and probability are numbers and the object returned is new, so the call
\* writes no cell
predictOnHeap(h, featuresRef) ==
    predict(bundleOf(h), [ vector |-> h[featuresRef].cells ])

NoPrediction == [ prediction |-> 0, score |-> "none" ]

(***************************************************************************)
(* The popup: loadModel, displayResult, analyzeArticle                     *)
(***************************************************************************)

\* what the catch block of loadModel turns into null: a failed fetch, a
\* response that is not JSON, a constructor that throws
LoadFailed == [ ok |-> FALSE, bundle |-> NoBundle ]

\* loadModel(): the fetched JSON becomes the vectorizer and the model as it
\* is; no length of it is looked at
loadModel(fetched) ==
    IF fetched.ok THEN [ ok |-> TRUE, bundle |-> fetched.bundle ] ELSE LoadFailed

\* prediction.confidence < 0.6; no comparison with NaN is true
confidenceBelowSixTenths(p) == LessThan(p.confidence, Tenths(6))

\* displayResult(isArticle, prediction): what the result area shows; detail
\* is statusClass and confidence tells whether the percentage is a number
displayResult(isArticle, hasPrediction, p) ==
    IF ~isArticle
    THEN [ status |-> "not-article", detail |-> "", confidence |-> "" ]
    ELSE IF ~hasPrediction
    THEN [ status |-> "loading", detail |-> "", confidence |-> "" ]
    ELSE [ status     |-> "verdict",
           detail     |-> IF confidenceBelowSixTenths(p) THEN "uncertain"
                          ELSE IF p.prediction = 1 THEN "fake-news"
                          ELSE "real-news",
           confidence |-> IF IsNaN(p.confidence) THEN "NaN%" ELSE "number%" ]

\* the catch block of analyzeArticle: the error's message is shown
showError(message) ==
    [ status |-> "error", detail |-> message, confidence |-> "" ]

\* slice(0, TopFeatureCount) of the sorted topFeatures
TopFeatureCount == 20

\* the entry at position i comes before the entry at position j in
\* topFeatures: sort((a, b) => b.val - a.val) puts the larger val first and
\* keeps entries of equal val in the order of their positions
sortsBefore(vector, i, j) ==
    \/ LessThan(vector[j], vector[i])
    \/ vector[i] = vector[j] /\ i < j

\* the positions of topFeatures: of the features above 0, the
\* TopFeatureCount first in sorted order
topFeatures(vector) ==
    LET above == { i \in 1..Len(vector) : Positive(vector[i]) }
    IN  { i \in above :
            Cardinality({ j \in above : sortsBefore(vector, j, i) })
                < TopFeatureCount }

\* the topFeatures log reads f.coef.toFixed for each of topFeatures: a
\* TypeError when this.coef has no such position
topFeaturesThrows(b, f) ==
    \E i \in topFeatures(f.vector) : i > Len(b.coefficients)

\* the values of the variables a harness does not use
StemIdle ==
    word = "" /\ out = "" /\ out2 = "" /\ phase = "idle" /\ dbl = <<>>

PipeIdle ==
    /\ text = "" /\ bundle = NoBundle /\ words = <<>> /\ processedText = ""
    /\ tokens = <<>> /\ features = NoFeatures /\ predicted = NoPrediction
    /\ vphase = "idle"

CallsIdle == memo = {} /\ calls = 0 /\ heap = <<>>

NoResponse == [ kind |-> "none", text |-> "" ]

\* the result area of popup.html before any run wrote to it
InitialResult == [ status |-> "initial", detail |-> "", confidence |-> "" ]

PopupIdle ==
    /\ pc = <<>> /\ modelFile = LoadFailed /\ domLoaded = FALSE /\ btnDisabled = FALSE
    /\ btnText = "Analyze Article"
    /\ resultArea = InitialResult
    /\ response = <<>> /\ modelComponents = LoadFailed
    /\ transformCalls = 0 /\ predictCalls = 0
    /\ prediction = NoPrediction /\ runs = 0

(***************************************************************************)
(* Stemmer harness: stem applied to a word, then to its own output         *)
(***************************************************************************)

\* bound: longest word enumerated over SmallAlphabet
MaxWordLen == 4

SmallAlphabet == {"a", "e", "i", "s", "l", "y"}

RECURSIVE WordsOver(_, _)
WordsOver(alphabet, n) ==
    IF n = 0 THEN {""}
    ELSE LET shorter == WordsOver(alphabet, n - 1)
         IN  shorter \cup { w \o c : w \in { v \in shorter : Len(v) = n - 1 },
                                     c \in alphabet }

LetterSet == { SubSeq(LowerLetters, i, i) : i \in 1..26 }

\* every word of one or two lowercase letters
ShortWords == WordsOver(LetterSet, 2) \ {""}

SpotCheckWords == {"caresses", "ponies", "agreed", "relational", "conditional"}

\* words that drive each step of the stemmer
Lexicon ==
    { "constructor", "breaking", "reporting", "reported", "reporter",
      "reports", "additionally", "additional", "haves", "whiles", "wills",
      "flies", "dies", "tied", "cried", "feed", "hopping", "falling",
      "filing", "happy", "rationally", "radically", "apology", "formalize",
      "electricity", "hopeful", "goodness", "revival", "replacement",
      "cement", "placement", "adoption", "probate", "rate", "cease",
      "controll", "roll", "Breaking", "NEWS", "yy", "dying", "syying" }

Words ==
    (WordsOver(SmallAlphabet, MaxWordLen) \ {""})
        \cup ShortWords \cup PoolKeys \cup SpotCheckWords \cup Lexicon

Init ==
    /\ word \in Words
    /\ out = ""
    /\ out2 = ""
    /\ phase = "ready"
    /\ dbl = <<>>
    /\ PipeIdle
    /\ CallsIdle
    /\ PopupIdle

CallStem ==
    /\ phase = "ready"
    /\ out' = stem(word)
    /\ phase' = "stemmed"
    /\ UNCHANGED <<word, out2, dbl, pipeVars, callVars, popupVars>>

\* stem(stem(word)); word.toLowerCase() throws a TypeError when the first
\* call answered with the inherited constructor, which is not a string
CallRestem ==
    /\ phase = "stemmed"
    /\ IF out = ObjectConstructorText
       THEN phase' = "threw" /\ out2' = out2
       ELSE phase' = "restemmed" /\ out2' = stem(out)
    /\ UNCHANGED <<word, out, dbl, pipeVars, callVars, popupVars>>

\* endsDoubleConsonant(word), for the word as stem hands it on: lowercased
CallEndsDoubleConsonant ==
    /\ dbl = <<>>
    /\ dbl' = <<endsDoubleConsonant(ToLowerCase(word))>>
    /\ UNCHANGED <<word, out, out2, phase, pipeVars, callVars, popupVars>>

Next == CallStem \/ CallRestem \/ CallEndsDoubleConsonant

Spec == Init /\ [][Next]_vars

(***************************************************************************)
(* Pipeline harness: stemming(text), then transform(text) with a bundle    *)
(***************************************************************************)

\* bound: most pieces in an enumerated text
MaxPieces == 2

TextPieces == {"Breaking:", "fake", "haves", "constructor", "this", "report."}

RECURSIVE TextsOf(_)
TextsOf(n) ==
    IF n = 0 THEN {""}
    ELSE LET shorter == TextsOf(n - 1)
         IN  shorter \cup { IF t = "" THEN p ELSE t \o " " \o p :
                              t \in shorter, p \in TextPieces }

Texts ==
    TextsOf(MaxPieces)
        \cup { "Breaking: this report is fake fake fake.",
               "42 -- !!", "The is; don't", "Wills will\thave\nhaves",
               "reporting reported reporter reports" }

\* model bundles as model_params.json holds them, every number n standing
\* for the decimal n / 10 (see Tenths): idf values as TfidfVectorizer
\* computes them are positive.  With the text "Breaking: this report is fake
\* fake fake." the last three give the scores 2^-54, 2^-52 and -2^-52.
PipeBundles ==
    { [ vocabulary |-> <<"report", "fake", "breaking">>,
        idf_values |-> <<10, 20, 15>>,
        coefficients |-> <<5, -12, 3>>, intercept |-> 1 ],
      [ vocabulary |-> <<"function", "have", "break">>,
        idf_values |-> <<12, 10, 31>>,
        coefficients |-> <<7, -2, 4>>, intercept |-> -3 ],
      [ vocabulary |-> <<"fake">>,
        idf_values |-> <<25>>,
        coefficients |-> <<-9>>, intercept |-> 0 ],
      [ vocabulary |-> <<"will", "report", "code", "fake">>,
        idf_values |-> <<11, 13, 17, 19>>,
        coefficients |-> <<1, 2, -3, 4>>, intercept |-> 2 ],
      [ vocabulary |-> <<"fake", "report">>,
        idf_values |-> <<10, 10>>,
        coefficients |-> <<-3, 9>>, intercept |-> 0 ],
      [ vocabulary |-> <<"fake", "report">>,
        idf_values |-> <<5, 20>>,
        coefficients |-> <<-19, 13>>, intercept |-> 1 ],
      [ vocabulary |-> <<"fake", "report">>,
        idf_values |-> <<5, 20>>,
        coefficients |-> <<-17, 14>>, intercept |-> -1 ] }

InitVec ==
    /\ StemIdle
    /\ CallsIdle
    /\ PopupIdle
    /\ text \in Texts
    /\ bundle \in PipeBundles
    /\ words = <<>>
    /\ processedText = ""
    /\ tokens = <<>>
    /\ features = NoFeatures
    /\ predicted = NoPrediction
    /\ vphase = "ready"

\* normalize: one call of stemming(text)
CallStemming ==
    /\ vphase = "ready"
    /\ words' = stemmedWords(text)
    /\ processedText' = stemming(text)
    /\ vphase' = "normalized"
    /\ UNCHANGED <<stemVars, callVars, popupVars, text, bundle, tokens,
                   features, predicted>>

\* vectorize: one call of vectorizer.transform(text)
CallTransform ==
    /\ vphase = "normalized"
    /\ words' = stemmedWords(text)
    /\ processedText' = stemming(text)
    /\ tokens' = SplitWords(stemming(text))
    /\ features' = transform(bundle, text)
    /\ vphase' = "vectorized"
    /\ UNCHANGED <<stemVars, callVars, popupVars, text, bundle, predicted>>

\* classify: one call of model.predict(features)
CallPredict ==
    /\ vphase = "vectorized"
    /\ predicted' = predict(bundle, features)
    /\ vphase' = "predicted"
    /\ UNCHANGED <<stemVars, callVars, popupVars, text, bundle, words,
                   processedText, tokens, features>>

NextVec == CallStemming \/ CallTransform \/ CallPredict

SpecVec == InitVec /\ [][NextVec]_vars

(***************************************************************************)
(* Repeated calls: transform and predict called again and again, in any    *)
(* order, on the vectorizer and the model of one bundle                    *)
(***************************************************************************)

\* bound: calls made on one bundle
MaxCalls == 4

CallTexts ==
    { "fake fake report", "Breaking: this report is fake fake fake.",
      "haves constructor" }

\* the bundles of PipeBundles the calls are made on
CallBundles ==
    { b \in PipeBundles :
        b.vocabulary \in { <<"report", "fake", "breaking">>,
                           <<"function", "have", "break">> } }

InitCalls ==
    /\ StemIdle
    /\ PopupIdle
    /\ text = ""
    /\ bundle \in CallBundles
    /\ words = <<>>
    /\ processedText = ""
    /\ tokens = <<>>
    /\ features = NoFeatures
    /\ predicted = NoPrediction
    /\ vphase = "idle"
    /\ memo = {}
    /\ calls = 0
    /\ heap = constructed(bundle)

\* call number calls + 1 was transform(t) and left hf, the heap and the
\* reference returned: the caller keeps the reference
Transformed(t, hf) ==
    /\ heap' = hf[1]
    /\ memo' = memo \cup { [ call   |-> calls + 1,
                             op     |-> "transform",
                             text   |-> t,
                             ref    |-> hf[2],
                             result |-> hf[1][hf[2]].cells ] }

\* one more call of vectorizer.transform, by any caller with any text
TransformAgain ==
    /\ calls < MaxCalls
    /\ calls' = calls + 1
    /\ \E t \in CallTexts : Transformed(t, transformOnHeap(heap, t))
    /\ UNCHANGED <<stemVars, pipeVars, popupVars>>

\* one more call of model.predict, by a caller of an earlier transform with
\* the array that call returned, as it is by now
PredictAgain ==
    /\ calls < MaxCalls
    /\ calls' = calls + 1
    /\ \E c \in { d \in memo : d.op = "transform" } :
        memo' = memo \cup { [ call   |-> calls + 1,
                              op     |-> "predict",
                              text   |-> c.text,
                              ref    |-> c.ref,
                              result |-> predictOnHeap(heap, c.ref) ] }
    /\ UNCHANGED <<stemVars, pipeVars, popupVars, heap>>

NextCalls == TransformAgain \/ PredictAgain

SpecCalls == InitCalls /\ [][NextCalls]_vars

(***************************************************************************)
(* Claims about the stemmer                                                *)
(***************************************************************************)

IsLowerAlpha(s) == \A i \in 0..(Len(s) - 1) : IsLowerLetter(CharAt(s, i))

Stemmed == phase \in {"stemmed", "restemmed", "threw"}

\* C1 (as stated): stem gives caress, poni, agree, relate and condit for
\* caresses, ponies, agreed, relational and conditional.
C1_KnownPairsAsStated ==
    Stemmed =>
        /\ (word = "caresses" => out = "caress")
        /\ (word = "ponies" => out = "poni")
        /\ (word = "agreed" => out = "agree")
        /\ (word = "relational" => out = "relate")
        /\ (word = "conditional" => out = "condit")

\* C1 (amended): stem gives caress, poni, agre, relat and condit for
\* caresses, ponies, agreed, relational and conditional: step 5a strips the
\* final "e" that steps 1b and 2 leave on "agree" and "relate".
C1_KnownPairs ==
    Stemmed =>
        /\ (word = "caresses" => out = "caress")
        /\ (word = "ponies" => out = "poni")
        /\ (word = "agreed" => out = "agre")
        /\ (word = "relational" => out = "relat")
        /\ (word = "conditional" => out = "condit")

C1_Witness == phase = "stemmed" /\ word = "relational" /\ out = "relat"

\* C4: for a non-empty word of lowercase letters, stem answers a non-empty
\* string of lowercase letters, and only a listed irregular form is answered
\* from the table lookup.
C4_LowercaseInLowercaseOut ==
    (Stemmed /\ word # "" /\ IsLowerAlpha(word)) =>
        /\ out # ""
        /\ IsLowerAlpha(out)
        /\ (word \notin PoolKeys =>
               out = IF Len(word) <= 2 THEN word ELSE steps(word))

\* C6 (as stated): stem(stem(w)) = stem(w) for every listed irregular form
\* and every spot-check word.
C6_RestemStableAsStated ==
    (phase = "restemmed" /\ word \in PoolKeys \cup SpotCheckWords) =>
        out2 = out

\* C6 (amended): stem(stem(w)) = stem(w) for every listed irregular form and
\* for caresses, ponies, relational and conditional; for agreed the stem is
\* "agre" and stemming it again truncates it to "agr".
C6_RestemStable ==
    /\ (phase = "restemmed" /\ word \in PoolKeys \cup (SpotCheckWords \ {"agreed"}))
           => out2 = out
    /\ (phase = "restemmed" /\ word = "agreed") => (out = "agre" /\ out2 = "agr")

C6_Witness == phase = "restemmed" /\ word = "caresses" /\ out2 = "caress"

\* C7: for every form listed in the irregular-form table, stem answers the
\* table's canonical stem, whatever the rule steps would have made of it.
C7_IrregularForms ==
    \A p \in irregularForms : (Stemmed /\ word = p[2]) => out = p[1]

C7_Witness ==
    /\ phase = "stemmed" /\ word = "news" /\ out = "news"
    /\ steps("news") # "news"

\* C8: for every lowercase word of one or two letters, stem(w) = w.
C8_ShortWordsUnchanged ==
    (Stemmed /\ word \in ShortWords) => out = word

C8_Witness ==
    /\ phase = "stemmed" /\ word = "as" /\ out = "as"
    /\ steps("as") # "as"

\* the position of the first rule of the list whose suffix the word ends
\* with, 0 when there is none
FirstMatch(w, rules) ==
    IF \E k \in 1..Len(rules) : EndsWith(w, rules[k][1])
    THEN CHOOSE k \in 1..Len(rules) :
            /\ EndsWith(w, rules[k][1])
            /\ \A j \in 1..(k - 1) : ~EndsWith(w, rules[j][1])
    ELSE 0

\* the first matching rule decides: its replacement when its condition
\* holds, the word as it is when it fails or when no rule matches
CommitOnFirst(w, rules) ==
    LET k == FirstMatch(w, rules)
    IN  IF k = 0 THEN w
        ELSE LET stm == DropLast(w, Len(rules[k][1]))
             IN  IF condition(rules[k][3], stm, w)
                 THEN stm \o rules[k][2]
                 ELSE w

\* C15: in steps 1a, 1c, 2, 3, 4 and 5b the rule list commits on the first
\* rule in list order whose suffix the word ends with: the suffix is replaced
\* if that rule's condition holds, and if it fails the word is returned
\* unmodified and no later rule of the list is tried (step 4 leaves a word
\* in "ement" whose stem has measure <= 1 unchanged even when the later
\* "ent" rule would fire). The word of each step is the one stem hands it.
C15_FirstMatchCommits ==
    LET w0 == ToLowerCase(word)
        w1 == step1a(w0)
        w2 == step1b(w1)
        w3 == step1c(w2)
        w4 == step2(w3)
        w5 == step3(w4)
        w6 == step4(w5)
        w7 == step5a(w6)
        w8 == step5b(w7)
    IN  (phase = "stemmed" /\ pool(w0) = "" /\ Len(w0) > 2) =>
            /\ out = w8
            /\ applyRuleList(w0, step1aRules) = CommitOnFirst(w0, step1aRules)
            /\ ~(EndsWith(w0, "ies") /\ Len(w0) = 4) =>
                    w1 = CommitOnFirst(w0, step1aRules)
            /\ w3 = CommitOnFirst(w2, step1cRules)
            /\ applyRuleList(w3, step2Rules) = CommitOnFirst(w3, step2Rules)
            /\ ~(/\ EndsWith(w3, "alli")
                 /\ hasPositiveMeasure(DropLast(w3, 4))) =>
                    w4 = CommitOnFirst(w3, step2Rules)
            /\ w5 = CommitOnFirst(w4, step3Rules)
            /\ w6 = CommitOnFirst(w5, step4Rules)
            /\ w8 = CommitOnFirst(w7, step5bRules)

\* stem answered for "placement": "ement" matches first, its stem "plac" has
\* measure 1, and the word is left as it is although "ent" would fire
C15_Witness ==
    /\ phase = "stemmed"
    /\ word = "placement"
    /\ out = "placement"
    /\ measure(DropLast(word, 5)) = 1
    /\ measure(DropLast(word, 3)) > 1

\* C16: endsDoubleConsonant(w) is true exactly when w has at least two
\* characters, its last two characters are equal, and both of them are
\* consonants under isConsonant; for every word, also one ending in "yy".
C16_EndsDoubleConsonant ==
    dbl # <<>> =>
        LET w == ToLowerCase(word)
            n == Len(w)
        IN  dbl[1] <=> ( /\ n >= 2
                         /\ CharAt(w, n - 1) = CharAt(w, n - 2)
                         /\ isConsonant(w, n - 1)
                         /\ isConsonant(w, n - 2) )

(***************************************************************************)
(* Claims about stemming() and SimpleTFIDF.transform()                     *)
(***************************************************************************)

Range(f) == { f[i] : i \in DOMAIN f }

Distinct(f) == \A i, j \in DOMAIN f : f[i] = f[j] => i = j

\* s.split(' ') from position i on, with the current piece cur and the
\* pieces found so far acc: a separator at either end or two in a row give
\* an empty piece
RECURSIVE PiecesFrom(_, _, _, _)
PiecesFrom(s, i, cur, acc) ==
    IF i >= Len(s) THEN Append(acc, cur)
    ELSE IF CharAt(s, i) = " " THEN PiecesFrom(s, i + 1, "", Append(acc, cur))
    ELSE PiecesFrom(s, i + 1, cur \o CharAt(s, i), acc)

\* the tokens of a string stemming() returns, the pieces its join(' ')
\* separates; the empty string holds no token
Emitted(s) == IF s = "" THEN <<>> ELSE PiecesFrom(s, 0, "", <<>>)

\* C2 (as stated): every token of the string stemming() returns is a
\* non-empty string and is not a member of the stopword set.
C2_NoStopwordEmittedAsStated ==
    (vphase # "ready") =>
        \A k \in 1..Len(Emitted(processedText)) :
            /\ Emitted(processedText)[k] \in STRING
            /\ Emitted(processedText)[k] # ""
            /\ Emitted(processedText)[k] \notin STOPWORDS

\* C2 (amended): every token of the string stemming() returns is a
\* non-empty string and comes from the stem of an input token that is not
\* a member of the stopword set: the stopword test is made before stemming
\* only, so the token itself can be a stopword.
C2_NoStopwordStemmed ==
    (vphase # "ready") =>
        \A k \in 1..Len(Emitted(processedText)) :
            /\ Emitted(processedText)[k] \in STRING
            /\ Emitted(processedText)[k] # ""
            /\ \E i \in 1..Len(splitWords(text)) :
                  /\ splitWords(text)[i] \notin STOPWORDS
                  /\ Emitted(processedText)[k]
                         \in Range(Emitted(stem(splitWords(text)[i])))

\* the stem of "haves" was emitted, the stopword "this" left nothing
C2_Witness ==
    /\ vphase = "normalized"
    /\ text = "this haves"
    /\ processedText = "have"
    /\ Emitted(processedText) = <<"have">>
    /\ "have" \in STOPWORDS

\* the sum of the squares of the first k entries of a vector, added up in
\* the order of the positions
RECURSIVE SumOfSquares(_, _)
SumOfSquares(vector, k) ==
    IF k = 0 THEN Zero
    ELSE Plus(SumOfSquares(vector, k - 1), Times(vector[k], vector[k]))

AllZero(vector) == \A i \in 1..Len(vector) : vector[i] = Zero

\* 2^k
PowerOfTwo(k) == Round(1, <<1>>, k, FALSE)

\* the floating-point tolerance of a norm: a few units in the last place
NormTolerance == PowerOfTwo(-50)

\* x is 1 within the tolerance
NearOne(x) ==
    /\ LessThan(Minus(x, One), NormTolerance)
    /\ LessThan(Minus(One, x), NormTolerance)

\* C5: the vector transform() returns is all zero exactly when no token of
\* the normalized text is a vocabulary term, and otherwise the squares of
\* its entries sum to 1, within the floating-point tolerance of the sum.
C5_NormZeroOrOne ==
    (vphase = "vectorized") =>
        LET toks == SplitWords(processedText)
            hit  == \E k \in 1..Len(toks) : toks[k] \in Range(bundle.vocabulary)
            v    == features.vector
        IN  /\ (~hit) <=> AllZero(v)
            /\ hit => NearOne(SumOfSquares(v, Len(v)))

\* two entries were divided by the norm sqrt(37)
C5_Witness ==
    /\ vphase = "vectorized"
    /\ text = "Breaking: this report is fake fake fake."
    /\ features.raw = <<Num(1), Num(6), Zero>>
    /\ features.sumSquares = Num(37)
    /\ features.vector = <<DividedBy(Num(1), Sqrt(Num(37))),
                           DividedBy(Num(6), Sqrt(Num(37))), Zero>>

\* C9: stemming() emits one token per non-stopword token of the input, the
\* i-th being the stem of the i-th surviving token, and transform()'s split
\* of the joined string gives the same sequence back.
C9_OrderAndMultiplicity ==
    (vphase = "vectorized") =>
        LET kept == survivingWords(text)
        IN  /\ Len(tokens) = Len(kept)
            /\ \A i \in 1..Len(kept) :
                  i <= Len(tokens) => tokens[i] = stem(kept[i])

\* C10: with distinct vocabulary terms the vector has the vocabulary's
\* length and, before the L2 normalization, entry i is the raw count of
\* vocabulary[i] among the tokens of the normalized text times idf[i].
C10_RawCountTimesIdf ==
    (vphase = "vectorized" /\ Distinct(bundle.vocabulary)) =>
        LET toks == SplitWords(processedText)
        IN  /\ Len(features.raw) = Len(bundle.vocabulary)
            /\ \A i \in 1..Len(bundle.vocabulary) :
                  features.raw[i] =
                      Times(Num(Cardinality({ k \in 1..Len(toks) :
                                                toks[k] = bundle.vocabulary[i] })),
                            Tenths(bundle.idf_values[i]))

C10_Witness ==
    /\ vphase = "vectorized"
    /\ text = "Breaking: this report is fake fake fake."
    /\ bundle.vocabulary = <<"report", "fake", "breaking">>
    /\ tokens = <<"break", "report", "fake", "fake", "fake">>
    /\ features.raw = <<Num(1), Num(6), Zero>>

(***************************************************************************)
(* Claims about the classifier and the whole pipeline                      *)
(***************************************************************************)

\* the larger of x and y
MaxOf(x, y) == IF LessThan(x, y) THEN y ELSE x

\* C11 (as stated): predict's label is 1 exactly when probability > 0.5,
\* which is exactly when score = intercept + sum features[i] *
\* coefficients[i] is strictly positive, and 0 otherwise, also at
\* probability exactly 0.5; confidence is the larger of probability and
\* 1 - probability, so never below 0.5; and fakeProbability +
\* realProbability is 1.
C11_ThresholdAndConfidenceAsStated ==
    vphase = "predicted" =>
        LET score == predicted.scoreValue
            p     == predicted.fakeProbability
        IN  /\ predicted.prediction \in {0, 1}
            /\ predicted.prediction = 1 <=> LessThan(Half, p)
            /\ predicted.prediction = 1 <=> Positive(score)
            /\ predicted.confidence = MaxOf(p, Minus(One, p))
            /\ ~LessThan(predicted.confidence, Half)
            /\ Plus(predicted.fakeProbability, predicted.realProbability) = One

\* the least score whose probability is above 0.5: 3 * 2^-54, about
\* 1.67e-16
LabelThreshold == Round(1, <<3>>, -54, FALSE)

\* C11 (amended): predict's label is 1 exactly when probability > 0.5 and 0
\* otherwise, also at probability exactly 0.5; probability > 0.5 needs a
\* score that is strictly positive and is reached exactly by the scores of
\* at least 3 * 2^-54: a smaller positive score has probability exactly 0.5
\* and the label 0.  Confidence is the larger of probability and
\* 1 - probability, so never below 0.5, and fakeProbability +
\* realProbability is 1.
C11_ThresholdAndConfidence ==
    vphase = "predicted" =>
        LET score == predicted.scoreValue
            p     == predicted.fakeProbability
        IN  /\ predicted.prediction \in {0, 1}
            /\ predicted.prediction = 1 <=> LessThan(Half, p)
            /\ predicted.prediction = 1 => Positive(score)
            /\ predicted.prediction = 1 <=> ~LessThan(score, LabelThreshold)
            /\ (Positive(score) /\ LessThan(score, LabelThreshold)) => p = Half
            /\ predicted.confidence = MaxOf(p, Minus(One, p))
            /\ ~LessThan(predicted.confidence, Half)
            /\ Plus(predicted.fakeProbability, predicted.realProbability) = One

\* predict has answered 0 for a normalized vector whose score is positive
\* and below the threshold
C11_Witness ==
    /\ vphase = "predicted"
    /\ features.normalized
    /\ Positive(predicted.scoreValue)
    /\ LessThan(predicted.scoreValue, LabelThreshold)
    /\ predicted.fakeProbability = Half
    /\ predicted.prediction = 0

\* every maximal run of letters of the text is, lowercased, a stopword
NoKeptToken(content) ==
    \A i \in 1..Len(splitWords(content)) : splitWords(content)[i] \in STOPWORDS

\* C12: for the empty string and for any text whose normalization yields no
\* token, stemming returns nothing, transform returns the all-zero vector of
\* vocabulary length without dividing by the norm, and predict's score is
\* the intercept alone, so probability is sigmoid(intercept).
C12_EmptyInput ==
    (vphase = "predicted" /\ NoKeptToken(text)) =>
        /\ words = <<>>
        /\ processedText = ""
        /\ tokens = <<>>
        /\ Len(features.vector) = Len(bundle.vocabulary)
        /\ AllZero(features.vector)
        /\ ~features.normalized
        /\ predicted.scoreValue = Tenths(bundle.intercept)
        /\ predicted.score = ( IF bundle.intercept > 0 THEN "pos"
                               ELSE IF bundle.intercept = 0 THEN "zero"
                               ELSE "neg" )
        /\ predicted.fakeProbability = sigmoid(Tenths(bundle.intercept))

\* a text of stopwords and punctuation only went through the three calls
C12_Witness ==
    /\ vphase = "predicted"
    /\ text = "The is; don't"
    /\ words = <<>>
    /\ bundle.intercept < 0
    /\ predicted.prediction = 0

\* C13: with vocabulary report, fake, breaking, idf 1.0, 2.0, 1.5,
\* coefficients 0.5, -1.2, 0.3, intercept 0.1 and the text "Breaking: this
\* report is fake fake fake.", normalize yields break, report, fake, fake,
\* fake, the vector before L2 normalization is 1.0, 6.0, 0.0, the score is
\* negative and the label is 0.
C13_EndToEnd ==
    ( /\ text = "Breaking: this report is fake fake fake."
      /\ bundle = [ vocabulary |-> <<"report", "fake", "breaking">>,
                    idf_values |-> <<10, 20, 15>>,
                    coefficients |-> <<5, -12, 3>>, intercept |-> 1 ] ) =>
        /\ vphase \in {"normalized", "vectorized", "predicted"} =>
                words = <<"break", "report", "fake", "fake", "fake">>
        /\ vphase \in {"vectorized", "predicted"} =>
                /\ features.raw = <<Num(1), Num(6), Zero>>
                /\ features.sumSquares = Num(37)
                /\ features.normalized
        /\ vphase = "predicted" =>
                /\ predicted.score = "neg"
                /\ LessThan(Tenths(-11), predicted.scoreValue)
                /\ LessThan(predicted.scoreValue, Num(-1))
                /\ predicted.prediction = 0
                /\ predicted.confidence = predicted.realProbability

\* the score is the double -1.0014732149458938 and the confidence the
\* double 0.7313481316526824
C13_Witness ==
    /\ vphase = "predicted"
    /\ text = "Breaking: this report is fake fake fake."
    /\ bundle.idf_values = <<10, 20, 15>>
    /\ predicted.scoreValue = <<-1, <<13204, 3648, 6179, 128>>, -52>>
    /\ predicted.confidence = <<1, <<3090, 25820, 7376, 187>>, -53>>
    /\ predicted.prediction = 0

\* C14: after any sequence of transform and predict calls, by any callers
\* in any order, the vocabulary, the IDF list, the coefficients and the
\* intercept are unchanged; a call writes only to the objects it creates
\* itself, so every object that existed before the call, the bundle's and
\* the vectors earlier calls returned, is as it was; and two calls with the
\* same text return equal results, those of a call on the bundle as loaded.
C14_BundleReadOnly ==
    [][/\ bundleOf(heap') = bundle
       /\ \A r \in 1..Len(heap) : heap'[r] = heap[r]
       /\ \A c \in memo' : c.op = "transform" => heap'[c.ref].cells = c.result
       /\ \A c \in memo' \ memo :
              c.result = IF c.op = "transform"
                         THEN transform(bundle, c.text).vector
                         ELSE predict(bundle, transform(bundle, c.text))
       /\ \A c1, c2 \in memo' :
              (c1.op = c2.op /\ c1.text = c2.text) => c1.result = c2.result]_vars

\* a caller had its vector of a text that hits the vocabulary classified,
\* another text was transformed, and the first caller had the same vector
\* classified again
C14_Witness ==
    /\ calls = MaxCalls
    /\ \E p1, p2, t \in memo :
          /\ p1.op = "predict" /\ p2.op = "predict" /\ t.op = "transform"
          /\ p1.ref = p2.ref
          /\ p1.call < t.call /\ t.call < p2.call
          /\ p1.text = "Breaking: this report is fake fake fake."
          /\ t.text = "fake fake report"
          /\ \E i \in 1..Len(heap[p1.ref].cells) : Positive(heap[p1.ref].cells[i])
          /\ \E i \in 1..Len(heap[t.ref].cells) :
                 heap[t.ref].cells[i] # heap[p1.ref].cells[i]

(***************************************************************************)
(* analyzeArticle as a process: one action per stretch between two awaits  *)
(***************************************************************************)

\* bound: analysis runs of one popup
MaxRuns == 2

PopupTexts ==
    { "Breaking: this report is fake fake fake.", "The is; don't",
      "constructor haves", "report", "Fake news!" }

\* what chrome.tabs.sendMessage resolves with; undefined when the content
\* script never answers
Responses ==
    { [ kind |-> "undefined", text |-> "" ],
      [ kind |-> "not-article", text |-> "" ] }
        \cup { [ kind |-> "article", text |-> t ] : t \in PopupTexts }

\* what model/model_params.json can hold: bundles as exported, and bundles
\* whose lists differ in length or are empty.  The file is part of the
\* extension: every call of loadModel fetches the same one.
FetchedBundles ==
    PipeBundles
        \cup { [ vocabulary |-> <<"report", "fake">>, idf_values |-> <<10>>,
                 coefficients |-> <<5, -12>>, intercept |-> 1 ],
               [ vocabulary |-> <<"report", "fake">>, idf_values |-> <<10, 20>>,
                 coefficients |-> <<5>>, intercept |-> 1 ],
               [ vocabulary |-> <<"fake">>, idf_values |-> <<10, 20>>,
                 coefficients |-> <<5, 3>>, intercept |-> 1 ],
               [ vocabulary |-> <<>>, idf_values |-> <<>>,
                 coefficients |-> <<>>, intercept |-> 1 ] }

Fetches ==
    { [ ok |-> TRUE, bundle |-> b ] : b \in FetchedBundles } \cup { LoadFailed }

InitPopup ==
    /\ StemIdle
    /\ PipeIdle
    /\ CallsIdle
    /\ pc = <<>>
    /\ modelFile \in Fetches
    /\ domLoaded = FALSE
    /\ btnDisabled = FALSE
    /\ btnText = "Analyze Article"
    /\ resultArea = InitialResult
    /\ response = <<>>
    /\ modelComponents = LoadFailed
    /\ transformCalls = 0
    /\ predictCalls = 0
    /\ prediction = NoPrediction
    /\ runs = 0

\* the calls of analyzeArticle made so far, in the order they were made;
\* pc[r] is where call r stands and response[r] is its local response
Runs == 1..Len(pc)

InProgress(r) == pc[r] \in {"query", "message", "load"}

\* lines 552-558: a call of analyzeArticle disables the button and awaits
\* chrome.tabs.query; nothing looks at whether another call is under way
Begin ==
    /\ runs < MaxRuns
    /\ runs' = runs + 1
    /\ btnDisabled' = TRUE
    /\ btnText' = "Analyzing..."
    /\ pc' = Append(pc, "query")
    /\ response' = Append(response, NoResponse)
    /\ UNCHANGED <<stemVars, pipeVars, callVars, modelFile, resultArea,
                   modelComponents, transformCalls, predictCalls, prediction>>

\* document's DOMContentLoaded listener
OnDOMContentLoaded ==
    /\ ~domLoaded
    /\ domLoaded' = TRUE
    /\ Begin

\* the button's click listener, registered as the script runs; a disabled
\* button dispatches no click
OnClick ==
    /\ ~btnDisabled
    /\ UNCHANGED domLoaded
    /\ Begin

\* the finally block of call r
Finally(r) ==
    /\ btnDisabled' = FALSE
    /\ btnText' = "Analyze Article"
    /\ pc' = [pc EXCEPT ![r] = "ended"]

\* the catch block followed by the finally block
CatchFinally(r, message) ==
    /\ resultArea' = showError(message)
    /\ Finally(r)

\* line 558: tabs.query resolves with the active tab and sendMessage is
\* awaited (line 561)
QueryResolves(r) ==
    /\ pc[r] = "query"
    /\ pc' = [pc EXCEPT ![r] = "message"]
    /\ UNCHANGED <<stemVars, pipeVars, callVars, modelFile, domLoaded,
                   btnDisabled, btnText,
                   resultArea, response, modelComponents, transformCalls,
                   predictCalls, prediction, runs>>

\* line 558: tabs.query rejects, or there is no active tab and tab.id throws
QueryFails(r) ==
    /\ pc[r] = "query"
    /\ CatchFinally(r, "TypeError")
    /\ UNCHANGED <<stemVars, pipeVars, callVars, modelFile, domLoaded,
                   response, modelComponents,
                   transformCalls, predictCalls, prediction, runs>>

\* line 561: sendMessage rejects (no content script in the tab)
MessageFails(r) ==
    /\ pc[r] = "message"
    /\ CatchFinally(r, "Could not establish connection")
    /\ UNCHANGED <<stemVars, pipeVars, callVars, modelFile, domLoaded,
                   response, modelComponents,
                   transformCalls, predictCalls, prediction, runs>>

\* lines 561-571: sendMessage resolves; not an article ends the run, an
\* article shows the loading indicator and awaits loadModel
MessageResolves(r) ==
    /\ pc[r] = "message"
    /\ \E m \in Responses :
        /\ response' = [response EXCEPT ![r] = m]
        /\ IF m.kind = "undefined"
           THEN CatchFinally(r, "TypeError")
           ELSE IF m.kind = "not-article"
           THEN /\ resultArea' = displayResult(FALSE, FALSE, NoPrediction)
                /\ Finally(r)
           ELSE /\ resultArea' = displayResult(TRUE, FALSE, NoPrediction)
                /\ pc' = [pc EXCEPT ![r] = "load"]
                /\ UNCHANGED <<btnDisabled, btnText>>
    /\ UNCHANGED <<stemVars, pipeVars, callVars, modelFile, domLoaded,
                   modelComponents, transformCalls, predictCalls, prediction,
                   runs>>

\* lines 649-692 for the prediction p: the logs, then displayResult, then
\* the finally block
Classified(r, p) ==
    /\ transformCalls' = 1
    /\ predictCalls' = 1
    /\ prediction' = p
    /\ resultArea' = displayResult(TRUE, TRUE, p)
    /\ Finally(r)

\* lines 627-649 for the vector f: the topFeatures log, then predict
Vectorized(r, mc, f) ==
    IF topFeaturesThrows(mc.bundle, f)
    THEN /\ transformCalls' = 1
         /\ predictCalls' = 0
         /\ prediction' = NoPrediction
         /\ CatchFinally(r, "TypeError")
    ELSE Classified(r, predict(mc.bundle, f))

\* lines 572-624 for what loadModel gave: null is an error, anything else
\* goes on to transform
Loaded(r, mc) ==
    /\ modelComponents' = mc
    /\ IF ~mc.ok
       THEN /\ transformCalls' = 0
            /\ predictCalls' = 0
            /\ prediction' = NoPrediction
            /\ CatchFinally(r, "Failed to load model")
       ELSE Vectorized(r, mc, transform(mc.bundle, response[r].text))

\* lines 571-693: loadModel resolves and the rest of the try block runs
\* without another await: transform, the topFeatures log, predict, display.
\* modelComponents and prediction are the locals of the call that got here
\* last, transformCalls and predictCalls the calls it made of each method.
LoadModelResolves(r) ==
    /\ pc[r] = "load"
    /\ Loaded(r, loadModel(modelFile))
    /\ UNCHANGED <<stemVars, pipeVars, callVars, modelFile, domLoaded,
                   response, runs>>

NextPopup ==
    \/ OnDOMContentLoaded
    \/ OnClick
    \/ \E r \in Runs : QueryResolves(r)
    \/ \E r \in Runs : QueryFails(r)
    \/ \E r \in Runs : MessageFails(r)
    \/ \E r \in Runs : MessageResolves(r)
    \/ \E r \in Runs : LoadModelResolves(r)

SpecPopup == InitPopup /\ [][NextPopup]_vars

(***************************************************************************)
(* Claims about the popup                                                  *)
(***************************************************************************)

\* a bundle as section 6 requires it: three lists of one length, not empty
ValidBundle(b) ==
    /\ Len(b.vocabulary) > 0
    /\ Len(b.idf_values) = Len(b.vocabulary)
    /\ Len(b.coefficients) = Len(b.vocabulary)

\* C3: a bundle whose vocabulary, IDF and coefficient lists differ in length,
\* or whose vocabulary is empty, is rejected before any transform or predict
\* call is made with it, and no prediction from it is computed or displayed.
C3_InvalidBundleRejected ==
    (modelComponents.ok /\ ~ValidBundle(modelComponents.bundle)) =>
        /\ transformCalls = 0
        /\ predictCalls = 0
        /\ resultArea.status # "verdict"

\* C17: every analysis run that ends, on any path, leaves the analyze button
\* enabled with the label "Analyze Article" and the result area showing a
\* final status (the not-article warning, a verdict or an error message),
\* never the loading indicator; while a run is in progress the button is
\* disabled.
C17_RunEndsButtonReset ==
    [][/\ \A r \in Runs :
            (InProgress(r) /\ pc'[r] = "ended") =>
                /\ ~btnDisabled'
                /\ btnText' = "Analyze Article"
                /\ resultArea'.status \in {"not-article", "verdict", "error"}
       /\ (\E r \in 1..Len(pc') : pc'[r] \in {"query", "message", "load"})
            => btnDisabled']_vars

====
